---- MODULE Spec2Model ----
(***************************************************************************)
(* Model of the metaheuristic load balancer: the capacity model            *)
(* (src/src/cloud: Task, VM, PM, Datacenter) and the population-based      *)
(* optimizers (src/src/algorithms/metaheuristic: PCO, PSO, GWO), the task  *)
(* source and the load balancer (src/src/data_broker).                     *)
(*                                                                         *)
(* Units.  CPU demand is kept in hundredths of a core (the task source     *)
(* divides a percentage by 100, task_queue.py:48), so max_cpu_utilization  *)
(* 0.9 is 90.  Time is kept in twentieths of the configured period, so the *)
(* factors 0.5 / 0.15 / 0.30 of Task.categorize_execution_time are         *)
(* 10 / 3 / 6.  Floating-point rounding is not modelled.                   *)
(***************************************************************************)
EXTENDS Integers, Sequences, FiniteSets, TLC

VARIABLES
    now,          \* time.time(), in model time units
    task_counter, \* Task.task_counter (task.py:4)
    vms,          \* LoadBalancer.vms: the VM pool, a sequence of VM objects
    last,         \* the last VM call: its name, target, result and pre-state
    pms,          \* Datacenter.pms: a sequence of PM objects
    pmlast,       \* the last PM call: its name, target, result and pre-state
    opt,          \* the running optimize() call of one metaheuristic
    upd,          \* the last update_population call: its arguments and outcome
    work_load,    \* TaskQueue.work_load: the files read, in insertion order
    tqlast,       \* the last TaskQueue call: its name, arguments and result
    lb,           \* LoadBalancer: the balance_load call and self.metrics
    rr            \* RoundRobinAllocator: resources, index and the last allocate call

vars == <<now, task_counter, vms, last, pms, pmlast, opt, upd, work_load, tqlast, lb, rr>>

\* ------------------------------------------------------------------ bounds
MaxTime == 4
MaxTasks == 3
MaxPMs == 1
MaxVMsPerPM == 2
MaxIterations == 2
num_plants == 4
num_particles == 2
num_wolves == 3
MaxLines == 3

\* --------------------------------------------------------------- constants
max_cpu_utilization == 90

\* ---------------------------------------------------------------- helpers
RECURSIVE SumCpu(_)
SumCpu(s) == IF s = <<>> THEN 0 ELSE Head(s).cpu_demand + SumCpu(Tail(s))

RECURSIVE SumMemory(_)
SumMemory(s) == IF s = <<>> THEN 0 ELSE Head(s).memory_demand + SumMemory(Tail(s))

RECURSIVE MaxEnd(_)
MaxEnd(s) ==
    IF s = <<>> THEN 0
    ELSE LET m == MaxEnd(Tail(s)) IN IF Head(s).end_time > m THEN Head(s).end_time ELSE m

\* list.remove(x): drops the first element equal to x
RECURSIVE ListRemove(_, _)
ListRemove(s, x) ==
    IF s = <<>> THEN <<>>
    ELSE IF Head(s) = x THEN Tail(s)
    ELSE <<Head(s)>> \o ListRemove(Tail(s), x)

\* ------------------------------------------------------------------- Task
Task_categorize_execution_time(cpu_util) ==
    IF cpu_util < 30 THEN 10
    ELSE IF cpu_util < 70 THEN 3
    ELSE 6

\* Task(cpu_demand, memory_demand, execution_time) constructed at time t as
\* the id-th task of the process
Task_init(id, cpu_demand, memory_demand, execution_time, t) ==
    LET et == execution_time * Task_categorize_execution_time(cpu_demand) IN
    [ task_id        |-> id,
      cpu_demand     |-> cpu_demand,
      memory_demand  |-> memory_demand,
      execution_time |-> et,
      end_time       |-> t + et ]

Task_is_complete(task, t) ==
    IF task.end_time # 0 THEN t >= task.end_time ELSE FALSE

NoTask ==
    [ task_id |-> 0, cpu_demand |-> 0, memory_demand |-> 0,
      execution_time |-> 0, end_time |-> 0 ]

\* --------------------------------------------------------------------- VM
VM_init(cpu_core, memory) ==
    [ cpu_core            |-> cpu_core,
      memory              |-> memory,
      memory_usage        |-> 0,
      tasks               |-> <<>>,
      total_executed_time |-> 0 ]

\* The for loop of cpu_usage_percent over self.tasks: the list iterator
\* keeps a position i; removing the current element shifts the rest left
\* while the position still moves on.
RECURSIVE VM_cpu_usage_loop(_, _, _, _)
VM_cpu_usage_loop(tasks, i, cpu_usage, t) ==
    IF i > Len(tasks) THEN [ tasks |-> tasks, cpu_usage |-> cpu_usage ]
    ELSE IF Task_is_complete(tasks[i], t)
         THEN VM_cpu_usage_loop(ListRemove(tasks, tasks[i]), i + 1, cpu_usage, t)
         ELSE VM_cpu_usage_loop(tasks, i + 1, cpu_usage + tasks[i].cpu_demand, t)

\* returns the value and the VM as the call leaves it
VM_cpu_usage_percent(vm, t) ==
    LET r == VM_cpu_usage_loop(vm.tasks, 1, 0, t) IN
    [ value |-> r.cpu_usage, vm |-> [vm EXCEPT !.tasks = r.tasks] ]

\* a free_cpu_percent whose read drops every task of the VM, finished or not
VM_free_cpu_percent_clearing(vm, t) ==
    LET r == VM_cpu_usage_percent(vm, t) IN
    [ value |-> max_cpu_utilization - r.value, vm |-> [r.vm EXCEPT !.tasks = <<>>] ]

VM_free_cpu_percent(vm, t) ==
    LET r == VM_cpu_usage_percent(vm, t) IN
    [ value |-> max_cpu_utilization - r.value, vm |-> r.vm ]

VM_free_memory(vm) == vm.memory - vm.memory_usage

VM_show_cpu_utilization(vm, t) == VM_cpu_usage_percent(vm, t).vm

VM_allocate_task_always_charged(vm, task, t) ==
    LET f  == VM_free_cpu_percent(vm, t)
        ok == f.value >= task.cpu_demand /\ VM_free_memory(f.vm) >= task.memory_demand
        v1 == IF ok
              THEN [f.vm EXCEPT !.memory_usage = @ + task.memory_demand,
                                !.tasks = Append(@, task),
                                !.total_executed_time = @ + task.execution_time]
              ELSE [f.vm EXCEPT !.total_executed_time = @ + task.execution_time]
    IN [ allocated |-> ok, vm |-> VM_show_cpu_utilization(v1, t) ]

VM_allocate_task_strict(vm, task, t) ==
    LET f  == VM_free_cpu_percent(vm, t)
        ok == f.value > task.cpu_demand /\ VM_free_memory(f.vm) >= task.memory_demand
        v1 == IF ok
              THEN [f.vm EXCEPT !.memory_usage = @ + task.memory_demand,
                                !.tasks = Append(@, task),
                                !.total_executed_time = @ + task.execution_time]
              ELSE f.vm
    IN [ allocated |-> ok, vm |-> VM_show_cpu_utilization(v1, t) ]

VM_allocate_task(vm, task, t) ==
    LET f  == VM_free_cpu_percent(vm, t)
        ok == f.value >= task.cpu_demand /\ VM_free_memory(f.vm) >= task.memory_demand
        v1 == IF ok
              THEN [f.vm EXCEPT !.memory_usage = @ + task.memory_demand,
                                !.tasks = Append(@, task),
                                !.total_executed_time = @ + task.execution_time]
              ELSE f.vm
    IN [ allocated |-> ok, vm |-> VM_show_cpu_utilization(v1, t) ]

\* a monitor_resources that reads the usage through cpu_usage_percent
VM_monitor_resources_purging(vm, t) ==
    [ value |-> SumCpu(SelectSeq(vm.tasks, LAMBDA x : ~Task_is_complete(x, t))),
      vm    |-> VM_cpu_usage_percent(vm, t).vm ]

\* the sum runs over a generator: nothing is removed, memory_usage and
\* free_memory() are only read
VM_monitor_resources(vm, t) ==
    [ value |-> SumCpu(SelectSeq(vm.tasks, LAMBDA x : ~Task_is_complete(x, t))),
      vm    |-> vm ]

VM_calculate_makespan(vm) == MaxEnd(vm.tasks)

\* --------------------------------------------------------------------- PM
RECURSIVE SumCores(_)
SumCores(s) == IF s = <<>> THEN 0 ELSE Head(s).cpu_core + SumCores(Tail(s))

RECURSIVE SumVmMemory(_)
SumVmMemory(s) == IF s = <<>> THEN 0 ELSE Head(s).memory + SumVmMemory(Tail(s))

PM_allocated_resource_cpu_only(pm, required_cpu_core, required_memory) ==
    IF pm.free_cpu_core >= required_cpu_core
    THEN [ ok |-> TRUE,
           pm |-> [pm EXCEPT !.free_cpu_core = @ - required_cpu_core,
                             !.free_memory = @ - required_memory] ]
    ELSE [ ok |-> FALSE, pm |-> pm ]

PM_allocated_resource(pm, required_cpu_core, required_memory) ==
    IF pm.free_cpu_core >= required_cpu_core /\ pm.free_memory >= required_memory
    THEN [ ok |-> TRUE,
           pm |-> [pm EXCEPT !.free_cpu_core = @ - required_cpu_core,
                             !.free_memory = @ - required_memory] ]
    ELSE [ ok |-> FALSE, pm |-> pm ]

PM_add_vm_always_appends(pm, vm) ==
    LET r == PM_allocated_resource(pm, vm.cpu_core, vm.memory) IN
    [ ok |-> r.ok, pm |-> [r.pm EXCEPT !.vms = Append(@, vm)] ]

PM_add_vm(pm, vm) ==
    LET r == PM_allocated_resource(pm, vm.cpu_core, vm.memory) IN
    IF r.ok THEN [ ok |-> TRUE, pm |-> [r.pm EXCEPT !.vms = Append(@, vm)] ]
    ELSE [ ok |-> FALSE, pm |-> r.pm ]

\* the loop of generate_vms: i VMs of the same size are still to be added
RECURSIVE PM_generate_vms_loop(_, _, _, _)
PM_generate_vms_loop(pm, i, cpu_core, memory) ==
    IF i = 0 THEN pm
    ELSE PM_generate_vms_loop(PM_add_vm(pm, VM_init(cpu_core, memory)).pm,
                              i - 1, cpu_core, memory)

\* int(x / y) for x >= 0, y > 0
PM_generate_vms(pm, vm_numbers, cpu_core, memory) ==
    LET c == IF cpu_core = 0 THEN pm.free_cpu_core \div vm_numbers ELSE cpu_core
        m == IF memory = 0 THEN pm.free_memory \div vm_numbers ELSE memory
    IN PM_generate_vms_loop(pm, vm_numbers, c, m)

PM_init(cpu_core, memory, vm_count, vm_cpu, vm_memory) ==
    LET pm == [ cpu_core      |-> cpu_core,
                free_cpu_core |-> cpu_core,
                memory        |-> memory,
                free_memory   |-> memory,
                vms           |-> <<>> ]
    IN IF vm_count > 0 THEN PM_generate_vms(pm, vm_count, vm_cpu, vm_memory) ELSE pm

\* ------------------------------------------------------------- Datacenter
\* the inner loop of generate_pms: one VM per entry of the "vms" list
RECURSIVE Datacenter_add_vms(_, _)
Datacenter_add_vms(pm, vm_configs) ==
    IF vm_configs = <<>> THEN pm
    ELSE Datacenter_add_vms(
             PM_add_vm(pm, VM_init(Head(vm_configs).cpu_core, Head(vm_configs).memory)).pm,
             Tail(vm_configs))

\* the outer loop of the heterogeneous branch: one PM per pm_configuration
RECURSIVE Datacenter_generate_pms(_, _)
Datacenter_generate_pms(acc, pm_configs) ==
    IF pm_configs = <<>> THEN acc
    ELSE Datacenter_generate_pms(
             Append(acc, Datacenter_add_vms(
                             PM_init(Head(pm_configs).cpu_core, Head(pm_configs).memory, 0, 0, 0),
                             Head(pm_configs).vms)),
             Tail(pm_configs))

\* the homogeneous branch: pm_count PMs from default_pm_config
Datacenter_generate_default_pms(acc, default_config) ==
    Datacenter_generate_pms(acc, [i \in 1..default_config.pm_count |->
        [ cpu_core |-> default_config.cpu_core,
          memory   |-> default_config.memory,
          vms      |-> default_config.vms ]])

\* =================================================== the capacity model: VMs
\* the tasks offered: <<cpu_demand, memory_demand, execution_time>>, with a
\* short, a medium and a long task, tasks that hold memory and tasks of
\* execution_time 0
TaskInputs ==
    { <<20, 0, 1>>, <<30, 6, 1>>, <<80, 0, 1>>, <<30, 0, 0>> }

NoVM == VM_init(0, 0)
NoCall ==
    [ op |-> "none", vm |-> 0, time |-> 0, allocated |-> FALSE, value |-> 0,
      pre |-> NoVM, task |-> NoTask ]
NoPM == [ cpu_core |-> 0, free_cpu_core |-> 0, memory |-> 0, free_memory |-> 0, vms |-> <<>> ]
NoPMCall == [ op |-> "none", pm |-> 0, ok |-> FALSE, pre |-> NoPM, vm |-> NoVM ]
NoOpt ==
    [ algorithm |-> "none", phase |-> "idle", tasks |-> <<>>, iterations |-> 0,
      iteration |-> 0, heap |-> <<>>, population |-> <<>>, best_positions |-> <<>>,
      velocities |-> <<>>, best_solution_idx |-> 0, best_fitness |-> <<>>, result |-> <<>> ]
NoUpd ==
    [ algorithm |-> "none", population |-> <<>>, fitness_scores |-> <<>>,
      updated |-> <<>>, raised |-> FALSE ]
NoTQCall == [ op |-> "none", file_name |-> "none", lines |-> <<>>, batch_size |-> 0, value |-> <<>> ]
NoMetrics ==
    [ makespan |-> 0, sla_violation |-> 0, sla_violation_percent |-> [ num |-> 0, den |-> 1 ],
      cpu_utilization |-> [ num |-> 0, den |-> 1 ], execution_time |-> 0,
      tasks_executed |-> 0, energy_consumption |-> [ num |-> 0, den |-> 1 ] ]
NoLB ==
    [ phase |-> "idle", error |-> "none", algorithm_name |-> "none",
      batch_size |-> 0, iterations |-> 0, start_time |-> 0,
      queue |-> <<>>, all_tasks |-> <<>>, sla_failed_count |-> 0, loop_count |-> 0,
      metrics |-> <<>>, saved |-> NoMetrics, results |-> <<>>, chosen |-> <<>>,
      task_monitor_thread |-> "none",
      pre |-> [ vms |-> <<>>, metrics |-> <<>>, task_counter |-> 0, results |-> <<>> ] ]

NoRR ==
    [ resources |-> <<>>, index |-> 0, op |-> "none", item |-> NoVM, ret |-> FALSE,
      error |-> "none", pre |-> [ resources |-> <<>>, index |-> 0 ] ]

\* the pool of the scenario of spec.md section 8: one PM hosting two VMs of
\* 2 cores and 8 memory units each
InitVMs == <<VM_init(2, 8), VM_init(2, 8)>>
NumVMs == Len(InitVMs)

Init ==
    /\ now = 1
    /\ task_counter = 0
    /\ vms = InitVMs
    /\ last = NoCall
    /\ pms = <<>>
    /\ pmlast = NoPMCall
    /\ opt = NoOpt
    /\ upd = NoUpd
    /\ work_load = <<>>
    /\ tqlast = NoTQCall
    /\ lb = NoLB
    /\ rr = NoRR

\* Task(...) followed by vm.allocate_task(task), as balance_load does
AllocateTask(v, cpu_demand, memory_demand, execution_time) ==
    /\ task_counter < MaxTasks
    /\ LET task == Task_init(task_counter + 1, cpu_demand, memory_demand, execution_time, now)
           r    == VM_allocate_task(vms[v], task, now)
       IN /\ vms' = [vms EXCEPT ![v] = r.vm]
          /\ last' = [ op |-> "allocate_task", vm |-> v, time |-> now,
                       allocated |-> r.allocated, value |-> 0,
                       pre |-> vms[v], task |-> task ]
    /\ task_counter' = task_counter + 1
    /\ UNCHANGED <<now, pms, pmlast, opt, upd, work_load, tqlast, lb, rr>>

FreeCpuPercent(v) ==
    /\ LET r == VM_free_cpu_percent(vms[v], now)
       IN /\ vms' = [vms EXCEPT ![v] = r.vm]
          /\ last' = [ op |-> "free_cpu_percent", vm |-> v, time |-> now,
                       allocated |-> FALSE, value |-> r.value,
                       pre |-> vms[v], task |-> NoTask ]
    /\ UNCHANGED <<now, task_counter, pms, pmlast, opt, upd, work_load, tqlast, lb, rr>>

CpuUsagePercent(v) ==
    /\ LET r == VM_cpu_usage_percent(vms[v], now)
       IN /\ vms' = [vms EXCEPT ![v] = r.vm]
          /\ last' = [ op |-> "cpu_usage_percent", vm |-> v, time |-> now,
                       allocated |-> FALSE, value |-> r.value,
                       pre |-> vms[v], task |-> NoTask ]
    /\ UNCHANGED <<now, task_counter, pms, pmlast, opt, upd, work_load, tqlast, lb, rr>>

CalculateMakespan(v) ==
    /\ last' = [ op |-> "calculate_makespan", vm |-> v, time |-> now,
                 allocated |-> FALSE, value |-> VM_calculate_makespan(vms[v]),
                 pre |-> vms[v], task |-> NoTask ]
    /\ UNCHANGED <<now, task_counter, vms, pms, pmlast, opt, upd, work_load, tqlast, lb, rr>>

MonitorResources(v) ==
    /\ \E r \in { VM_monitor_resources(vms[v], now) } :
          /\ vms' = [vms EXCEPT ![v] = r.vm]
          /\ last' = [ op |-> "monitor_resources", vm |-> v, time |-> now,
                       allocated |-> FALSE, value |-> r.value,
                       pre |-> vms[v], task |-> NoTask ]
    /\ UNCHANGED <<now, task_counter, pms, pmlast, opt, upd, work_load, tqlast, lb, rr>>

\* the wall clock moves on between two calls
Tick ==
    /\ now < MaxTime
    /\ now' = now + 1
    /\ UNCHANGED <<task_counter, vms, last, pms, pmlast, opt, upd, work_load, tqlast, lb, rr>>

Next ==
    \/ \E v \in 1..NumVMs, i \in TaskInputs : AllocateTask(v, i[1], i[2], i[3])
    \/ \E v \in 1..NumVMs : FreeCpuPercent(v)
    \/ \E v \in 1..NumVMs : CpuUsagePercent(v)
    \/ \E v \in 1..NumVMs : CalculateMakespan(v)
    \/ \E v \in 1..NumVMs : MonitorResources(v)
    \/ Tick

Spec == Init /\ [][Next]_vars

\* =================================================== the capacity model: PMs
PMCores == {4, 6}
PMMemories == {16}
\* the VMs offered to a PM: <<cpu_core, memory>>
VMInputs == { <<2, 8>>, <<3, 5>> }

RECURSIVE SeqsUpTo(_, _)
SeqsUpTo(S, n) ==
    IF n = 0 THEN { <<>> }
    ELSE LET shorter == SeqsUpTo(S, n - 1) IN
         shorter \cup { Append(q, x) : q \in shorter, x \in S }

VMConfigs == { [ cpu_core |-> i[1], memory |-> i[2] ] : i \in VMInputs }
PMConfigs ==
    { [ cpu_core |-> c, memory |-> m, vms |-> l ] :
          c \in PMCores, m \in PMMemories, l \in SeqsUpTo(VMConfigs, MaxVMsPerPM) }

InitPM ==
    /\ now = 1
    /\ task_counter = 0
    /\ vms = <<>>
    /\ last = NoCall
    /\ pms = <<>>
    /\ pmlast = NoPMCall
    /\ opt = NoOpt
    /\ upd = NoUpd
    /\ work_load = <<>>
    /\ tqlast = NoTQCall
    /\ lb = NoLB
    /\ rr = NoRR

\* Datacenter(config) with "pm_configurations"
DatacenterHeterogeneous(pm_configs) ==
    /\ pms = <<>>
    /\ pms' = Datacenter_generate_pms(<<>>, pm_configs)
    /\ pmlast' = [NoPMCall EXCEPT !.op = "generate_pms"]
    /\ UNCHANGED <<now, task_counter, vms, last, opt, upd, work_load, tqlast, lb, rr>>

\* Datacenter(config) with "default_pm_config"
DatacenterHomogeneous(default_config) ==
    /\ pms = <<>>
    /\ pms' = Datacenter_generate_default_pms(<<>>, default_config)
    /\ pmlast' = [NoPMCall EXCEPT !.op = "generate_pms"]
    /\ UNCHANGED <<now, task_counter, vms, last, opt, upd, work_load, tqlast, lb, rr>>

\* PM(cpu_core, cpu_speed, memory, vm_count, vm_cpu, vm_memory)
NewPM(cpu_core, memory, vm_count, vm_cpu, vm_memory) ==
    /\ Len(pms) < MaxPMs
    /\ pms' = Append(pms, PM_init(cpu_core, memory, vm_count, vm_cpu, vm_memory))
    /\ pmlast' = [NoPMCall EXCEPT !.op = "PM", !.pm = Len(pms) + 1]
    /\ UNCHANGED <<now, task_counter, vms, last, opt, upd, work_load, tqlast, lb, rr>>

\* VM(...) followed by pm.add_vm(vm)
AddVm(p, cpu_core, memory) ==
    /\ Len(pms[p].vms) < MaxVMsPerPM + 1
    /\ LET vm == VM_init(cpu_core, memory)
           r  == PM_add_vm(pms[p], vm)
       IN /\ pms' = [pms EXCEPT ![p] = r.pm]
          /\ pmlast' = [ op |-> "add_vm", pm |-> p, ok |-> r.ok, pre |-> pms[p], vm |-> vm ]
    /\ UNCHANGED <<now, task_counter, vms, last, opt, upd, work_load, tqlast, lb, rr>>

GenerateVms(p, vm_numbers, cpu_core, memory) ==
    /\ Len(pms[p].vms) + vm_numbers <= MaxVMsPerPM + 1
    /\ pms' = [pms EXCEPT ![p] = PM_generate_vms(pms[p], vm_numbers, cpu_core, memory)]
    /\ pmlast' = [NoPMCall EXCEPT !.op = "generate_vms", !.pm = p, !.pre = pms[p]]
    /\ UNCHANGED <<now, task_counter, vms, last, opt, upd, work_load, tqlast, lb, rr>>

NextPM ==
    \/ \E l \in SeqsUpTo(PMConfigs, MaxPMs) : DatacenterHeterogeneous(l)
    \/ \E n \in 0..MaxPMs, c \in PMConfigs :
           DatacenterHomogeneous([ pm_count |-> n, cpu_core |-> c.cpu_core,
                                   memory |-> c.memory, vms |-> c.vms ])
    \/ \E c \in PMCores, m \in PMMemories, n \in 0..MaxVMsPerPM,
          vc \in {0, 2}, vm \in {0, 8} : NewPM(c, m, n, vc, vm)
    \/ \E p \in 1..Len(pms), i \in VMInputs : AddVm(p, i[1], i[2])
    \/ \E p \in 1..Len(pms), n \in 1..MaxVMsPerPM, vc \in {0, 2}, vm \in {0, 8} :
           GenerateVms(p, n, vc, vm)

SpecPM == InitPM /\ [][NextPM]_vars

\* ===================================================== RoundRobinAllocator
\* the loop of allocate with k passes made: the resource at self.index is
\* taken, the index moves on, and the first add_vm that accepts returns
RECURSIVE RR_allocate_from_first(_, _, _, _)
RR_allocate_from_first(resources, index, item, k) ==
    IF k = Len(resources)
    THEN [ ret |-> FALSE, resources |-> resources, index |-> index ]
    ELSE LET r == PM_add_vm(resources[k + 1], item) IN
         IF r.ok
         THEN [ ret |-> TRUE, resources |-> [resources EXCEPT ![k + 1] = r.pm],
                index |-> (k + 1) % Len(resources) ]
         ELSE RR_allocate_from_first([resources EXCEPT ![k + 1] = r.pm],
                                     index, item, k + 1)

RECURSIVE RR_allocate_loop(_, _, _, _)
RR_allocate_loop(resources, index, item, k) ==
    IF k = Len(resources)
    THEN [ ret |-> FALSE, resources |-> resources, index |-> index ]
    ELSE LET r == PM_add_vm(resources[index + 1], item)
             i == (index + 1) % Len(resources)
         IN IF r.ok
            THEN [ ret |-> TRUE, resources |-> [resources EXCEPT ![index + 1] = r.pm],
                   index |-> i ]
            ELSE RR_allocate_loop([resources EXCEPT ![index + 1] = r.pm], i, item, k + 1)

\* allocate(item): ValueError on an empty resource list, else the loop
RR_allocate(a, item) ==
    LET pre == [ resources |-> a.resources, index |-> a.index ] IN
    IF a.resources = <<>>
    THEN [a EXCEPT !.op = "allocate", !.item = item, !.ret = FALSE,
                   !.error = "ValueError", !.pre = pre]
    ELSE LET r == RR_allocate_loop(a.resources, a.index, item, 0) IN
         [ resources |-> r.resources, index |-> r.index, op |-> "allocate",
           item |-> item, ret |-> r.ret, error |-> "none", pre |-> pre ]

\* RoundRobinAllocator(resources) over PMs without VMs
RRResources ==
    { <<>>,
      << PM_init(2, 8, 0, 0, 0) >>,
      << PM_init(4, 16, 0, 0, 0), PM_init(2, 8, 0, 0, 0), PM_init(6, 16, 0, 0, 0) >>,
      << PM_init(3, 5, 0, 0, 0), PM_init(5, 13, 0, 0, 0) >> }

\* the VMs offered to the allocator: <<cpu_core, memory>>
RRItems == { <<2, 8>>, <<3, 5>>, <<1, 2>> }

InitRR ==
    /\ now = 1
    /\ task_counter = 0
    /\ vms = <<>>
    /\ last = NoCall
    /\ pms = <<>>
    /\ pmlast = NoPMCall
    /\ opt = NoOpt
    /\ upd = NoUpd
    /\ work_load = <<>>
    /\ tqlast = NoTQCall
    /\ lb = NoLB
    /\ \E resources \in RRResources : rr = [NoRR EXCEPT !.resources = resources]

\* VM(...) followed by allocator.allocate(vm)
Allocate(cpu_core, memory) ==
    /\ rr' = RR_allocate(rr, VM_init(cpu_core, memory))
    /\ UNCHANGED <<now, task_counter, vms, last, pms, pmlast, opt, upd, work_load, tqlast, lb>>

NextRR == \E i \in RRItems : Allocate(i[1], i[2])

SpecRR == InitRR /\ [][NextRR]_vars

\* ============================================================ the optimizers
\* A candidate is a numpy array of VM indices (0-based).  Arrays are objects:
\* opt.heap[id] is the content of array id, and the population, the personal
\* bests and a basic slice of an array (a view) hold ids, so that an in-place
\* write shows through every reference to the same array.

Min2(a, b) == IF a < b THEN a ELSE b
Max2(a, b) == IF a > b THEN a ELSE b
Clip(x, lo, hi) == Max2(lo, Min2(x, hi))
\* float -> int conversion of numpy: towards zero
Trunc(num, den) == IF num >= 0 THEN num \div den ELSE -((-num) \div den)

RECURSIVE SumSeq(_)
SumSeq(s) == IF s = <<>> THEN 0 ELSE Head(s) + SumSeq(Tail(s))

\* index of the first largest element: np.argmax, and max() with a key
ArgMax(s) == CHOOSE i \in 1..Len(s) :
    /\ \A j \in 1..Len(s) : s[j] <= s[i]
    /\ \A j \in 1..(i - 1) : s[j] < s[i]

\* random draws from [0, 1), in sixteenths
RandDraws == {0, 8, 15}

\* vm_loads[vm_idx] += task over zip(tasks, allocation); a Python list takes
\* an index in -n .. n-1 and raises IndexError outside
IndexOk(allocation, n) == \A k \in 1..Len(allocation) : allocation[k] \in (-n)..(n - 1)
WrapIndex(idx, n) == IF idx < 0 THEN idx + n ELSE idx
VmLoad(allocation, tasks, n, vm_idx) ==
    SumSeq([k \in 1..Len(tasks) |->
        IF WrapIndex(allocation[k], n) = vm_idx THEN tasks[k] ELSE 0])

\* the generator of overload_penalty: VM after VM, each read purging
RECURSIVE Overload(_, _, _, _, _, _)
Overload(allocation, tasks, vmseq, t, j, penalty) ==
    IF j > Len(vmseq) THEN [ penalty |-> penalty, vms |-> vmseq ]
    ELSE LET f    == VM_free_cpu_percent(vmseq[j], t)
             load == VmLoad(allocation, tasks, Len(vmseq), j - 1)
         IN Overload(allocation, tasks, [vmseq EXCEPT ![j] = f.vm], t, j + 1,
                     penalty + Max2(0, load - f.value * vmseq[j].cpu_core))

\* evaluate_fitness(population, tasks, vms): the same code in pco.py, pso.py
\* and gwo.py.  raised is set when an index is outside the pool.
RECURSIVE evaluate_fitness(_, _, _, _, _)
evaluate_fitness(population, tasks, vmseq, t, scores) ==
    IF Len(scores) = Len(population)
    THEN [ scores |-> scores, vms |-> vmseq, raised |-> FALSE ]
    ELSE LET allocation == population[Len(scores) + 1] IN
         IF ~IndexOk(allocation, Len(vmseq))
         THEN [ scores |-> scores, vms |-> vmseq, raised |-> TRUE ]
         ELSE LET o == Overload(allocation, tasks, vmseq, t, 1, 0) IN
              evaluate_fitness(population, tasks, o.vms, t, Append(scores, -o.penalty))

\* np.random.choice(range(len(vms)), size=len(tasks))
Allocations(n, len) == [1..len -> 0..(n - 1)]

\* keep the arrays that are still referenced, numbered in order of reference
RECURSIVE FirstRefs(_, _)
FirstRefs(refs, seen) ==
    IF refs = <<>> THEN seen
    ELSE IF \E i \in 1..Len(seen) : seen[i] = Head(refs)
         THEN FirstRefs(Tail(refs), seen)
         ELSE FirstRefs(Tail(refs), Append(seen, Head(refs)))
NewId(order, id) == CHOOSE i \in 1..Len(order) : order[i] = id
CollectIn(heap, population, best_positions, order) ==
    [ heap           |-> [i \in 1..Len(order) |-> heap[order[i]]],
      population     |-> [i \in 1..Len(population) |-> NewId(order, population[i])],
      best_positions |-> [i \in 1..Len(best_positions) |-> NewId(order, best_positions[i])] ]
Collect(heap, population, best_positions) ==
    CollectIn(heap, population, best_positions,
              FirstRefs(population \o best_positions, <<>>))

Values(heap, ids) == [i \in 1..Len(ids) |-> heap[ids[i]]]

\* ------------------------------------------------------------------- PCO
\* sorted(zip(fitness_scores, population), key=..., reverse=True): stable
RECURSIVE PCO_sorted(_, _, _)
PCO_sorted(fitness_scores, population, done) ==
    IF Len(done) = Len(population) THEN [i \in 1..Len(done) |-> population[done[i]]]
    ELSE LET left == { i \in 1..Len(population) : \A k \in 1..Len(done) : done[k] # i }
             pick == CHOOSE i \in left :
                         /\ \A j \in left : fitness_scores[j] <= fitness_scores[i]
                         /\ \A j \in left : j < i => fitness_scores[j] < fitness_scores[i]
         IN PCO_sorted(fitness_scores, population, Append(done, pick))

\* the while loop of update_population: parent[:] of an array is a view, so
\* the offspring is the parent's array and the write lands in it
RECURSIVE PCO_reproduce(_, _, _, _)
PCO_reproduce(top_population, heap, size, n) ==
    IF Len(top_population) >= size
    THEN { [ population |-> top_population, heap |-> heap, raised |-> FALSE ] }
    ELSE IF top_population = <<>> \/ Len(heap[top_population[1]]) = 0
    THEN { [ population |-> top_population, heap |-> heap, raised |-> TRUE ] }
    ELSE UNION { PCO_reproduce(Append(top_population, top_population[j]),
                               [heap EXCEPT ![top_population[j]][mutate_idx] = value],
                               size, n) :
                 j \in 1..Len(top_population),
                 mutate_idx \in 1..Len(heap[top_population[1]]),
                 value \in 0..(n - 1) }

PCO_update_population(population, heap, fitness_scores, n) ==
    LET sorted_population == PCO_sorted(fitness_scores, population, <<>>)
        top_population == SubSeq(sorted_population, 1, Len(sorted_population) \div 2)
    IN PCO_reproduce(top_population, heap, Len(population), n)

\* ------------------------------------------------------------------- GWO
a_max == 2

\* alpha, beta, delta: the first three of np.argsort(fitness_scores)[::-1];
\* the order among equal scores is left to the sort
GWO_leaders(fitness_scores) ==
    { l \in [1..3 -> 1..Len(fitness_scores)] :
        /\ l[1] # l[2] /\ l[1] # l[3] /\ l[2] # l[3]
        /\ fitness_scores[l[1]] >= fitness_scores[l[2]]
        /\ fitness_scores[l[2]] >= fitness_scores[l[3]]
        /\ \A j \in 1..Len(fitness_scores) :
               j \notin {l[1], l[2], l[3]} => fitness_scores[j] <= fitness_scores[l[3]] }

\* X = leader - A * abs(C * leader - wolf), A = 2*a*r1 - a, C = 2*r2,
\* a = a_max * (1 - iteration / max_iterations); in units of 1/(128*max_iterations)
GWO_pulls(leader, wolf, iteration, max_iterations) ==
    { 128 * max_iterations * leader
        - a_max * (max_iterations - iteration) * (2 * k1 - 16)
            * (IF k2 * leader - 8 * wolf >= 0 THEN k2 * leader - 8 * wolf
               ELSE 8 * wolf - k2 * leader) :
      k1 \in RandDraws, k2 \in RandDraws }

\* updated_wolf[d] = (X1 + X2 + X3) / 3 into an integer array, then np.clip
GWO_positions(alpha, beta, delta, wolf, iteration, max_iterations, n) ==
    { Clip(Trunc(x1 + x2 + x3, 384 * max_iterations), 0, n - 1) :
      x1 \in GWO_pulls(alpha, wolf, iteration, max_iterations),
      x2 \in GWO_pulls(beta, wolf, iteration, max_iterations),
      x3 \in GWO_pulls(delta, wolf, iteration, max_iterations) }

\* all sequences whose i-th element is drawn from sets[i]
RECURSIVE Product(_)
Product(sets) ==
    IF sets = <<>> THEN { <<>> }
    ELSE LET rest == Product(Tail(sets)) IN
         { <<x>> \o q : x \in Head(sets), q \in rest }

\* the populations one call of update_population can produce: every wolf is
\* pulled from its old position towards the old alpha, beta and delta
GWO_update_population(population, fitness_scores, iteration, max_iterations, n) ==
    UNION { Product([i \in 1..Len(population) |->
                Product([d \in 1..Len(population[i]) |->
                    GWO_positions(population[l[1]][d], population[l[2]][d],
                                  population[l[3]][d], population[i][d],
                                  iteration, max_iterations, n)])]) :
            l \in GWO_leaders(fitness_scores) }

\* ------------------------------------------------------------------- PSO
\* velocities are kept in units of 1/VelDen: inertia_weight 0.5 halves a
\* velocity once per iteration, cognitive_weight and social_weight 1.5
\* times a draw of k/16 is 3k/32
VelDen == 32 * 2^MaxIterations

PSO_velocities(velocity, position, best_position, global_best_position) ==
    { [d \in 1..Len(position) |->
          velocity[d] \div 2
          + (VelDen \div 32) * ( 3 * r1[d] * (best_position[d] - position[d])
                                + 3 * r2[d] * (global_best_position[d] - position[d]) )] :
      r1 \in [1..Len(position) -> RandDraws], r2 \in [1..Len(position) -> RandDraws] }

\* the first loop of update_population from particle i on: += writes into
\* the particle's array, np.clip makes a new one
RECURSIVE PSO_move(_, _, _, _, _, _, _)
PSO_move(i, heap, population, velocities, best_positions, global_best, n) ==
    IF i > Len(population)
    THEN { [ heap |-> heap, population |-> population, velocities |-> velocities ] }
    ELSE UNION {
        LET moved   == [d \in 1..Len(v) |-> heap[population[i]][d] + Trunc(v[d], VelDen)]
            heap1   == [heap EXCEPT ![population[i]] = moved]
            clipped == [d \in 1..Len(v) |-> Clip(moved[d], 0, n - 1)]
        IN PSO_move(i + 1, Append(heap1, clipped),
                    [population EXCEPT ![i] = Len(heap1) + 1],
                    [velocities EXCEPT ![i] = v], best_positions, global_best, n) :
        v \in PSO_velocities(velocities[i], heap[population[i]],
                             heap[best_positions[i]], heap[global_best]) }

\* the second loop of update_population from particle i on
RECURSIVE PSO_refresh(_, _, _, _, _, _, _, _)
PSO_refresh(i, heap, population, best_positions, fitness_scores, tasks, vmseq, t) ==
    IF i > Len(population)
    THEN [ best_positions |-> best_positions, vms |-> vmseq, raised |-> FALSE ]
    ELSE LET e == evaluate_fitness(<<heap[best_positions[i]]>>, tasks, vmseq, t, <<>>) IN
         IF e.raised THEN [ best_positions |-> best_positions, vms |-> e.vms, raised |-> TRUE ]
         ELSE PSO_refresh(i + 1, heap, population,
                          IF fitness_scores[i] > e.scores[1]
                          THEN [best_positions EXCEPT ![i] = population[i]]
                          ELSE best_positions,
                          fitness_scores, tasks, e.vms, t)

\* update_population: the outcomes of one call
PSO_update_population(heap, population, velocities, fitness_scores, best_positions, tasks, vmseq, t) ==
    { LET r == PSO_refresh(1, m.heap, m.population, best_positions, fitness_scores,
                           tasks, vmseq, t)
      IN [ heap |-> m.heap, population |-> m.population, velocities |-> m.velocities,
           best_positions |-> r.best_positions, vms |-> r.vms, raised |-> r.raised ] :
      m \in PSO_move(1, heap, population, velocities, best_positions,
                     population[ArgMax(fitness_scores)], Len(vmseq)) }

\* ------------------------------------------------------------ optimize()
Algorithms == {"PCO", "PSO", "GWO"}
PopulationSize(algorithm) ==
    IF algorithm = "PCO" THEN num_plants
    ELSE IF algorithm = "PSO" THEN num_particles
    ELSE num_wolves

\* VMs as earlier batches left them: a long task, a medium task that ends at
\* time 4 ahead of a short one, a medium task, nothing.  optimize() is called
\* before or after the first of them has ended (OptTimes) and is taken to
\* run in an instant.
PoolTask(id, cpu_demand, start) == Task_init(id, cpu_demand, 0, 1, start)
PoolVM(cpu_core, tasks) ==
    [VM_init(cpu_core, 8) EXCEPT !.tasks = tasks,
                                 !.total_executed_time = SumSeq([i \in 1..Len(tasks) |->
                                                                    tasks[i].execution_time])]
Pool4 == << PoolVM(2, <<PoolTask(1, 80, 1)>>),
            PoolVM(1, <<PoolTask(2, 30, 1), PoolTask(3, 20, 1)>>),
            PoolVM(2, <<PoolTask(4, 60, 2)>>),
            PoolVM(1, <<>>) >>
Pool2 == SubSeq(Pool4, 2, 3)

\* the batches offered to a pool of n VMs, the empty batch among them
Batches(n) == IF n <= 2 THEN { <<>>, <<80>>, <<30, 80>> } ELSE { <<80>> }

OptTimes == {3, 4}

InitOpt ==
    /\ now \in OptTimes
    /\ task_counter = 4
    /\ vms \in {Pool2, Pool4}
    /\ last = NoCall
    /\ pms = <<>>
    /\ pmlast = NoPMCall
    /\ opt = NoOpt
    /\ upd = NoUpd
    /\ work_load = <<>>
    /\ tqlast = NoTQCall
    /\ lb = NoLB
    /\ rr = NoRR

\* the locals of optimize(tasks, vms) when its loop starts: the population
\* drawn by initialize_population, and for PSO the velocities and
\* best_positions = population[:]
initialize_population(algorithm, tasks, iterations, allocations) ==
    [ algorithm      |-> algorithm,
      phase          |-> "running",
      tasks          |-> tasks,
      iterations     |-> iterations,
      iteration      |-> 0,
      heap           |-> allocations,
      population     |-> [i \in 1..Len(allocations) |-> i],
      best_positions |-> IF algorithm = "PSO"
                         THEN [i \in 1..Len(allocations) |-> i] ELSE <<>>,
      velocities     |-> IF algorithm = "PSO"
                         THEN [i \in 1..Len(allocations) |-> [d \in 1..Len(tasks) |-> 0]]
                         ELSE <<>>,
      best_solution_idx |-> 0,
      best_fitness   |-> <<>>,
      result         |-> <<>> ]

\* the call optimize(tasks, vms) up to its loop
Optimize(algorithm, tasks, iterations, allocations) ==
    /\ opt.phase = "idle"
    /\ lb.phase = "idle"
    /\ opt' = initialize_population(algorithm, tasks, iterations, allocations)
    /\ UNCHANGED <<now, task_counter, vms, last, pms, pmlast, upd, work_load, tqlast, lb, rr>>

Running(algorithm) ==
    /\ opt.phase = "running"
    /\ opt.algorithm = algorithm
    /\ opt.iteration < opt.iterations

\* Of fitness_scores the call reads, after update_population, only
\* max(fitness_scores), appended to self.best_fitness, and
\* np.argmax(fitness_scores), the index of the solution returned.
Raised == [opt EXCEPT !.phase = "raised"]

\* one pass of the loop of PlantCompetitionOptimization.optimize
PCOIterate ==
    /\ Running("PCO")
    /\ \E ev \in { evaluate_fitness(Values(opt.heap, opt.population), opt.tasks, vms, now, <<>>) } :
          /\ vms' = ev.vms
          /\ \E idx \in { ArgMax(ev.scores) } :
             \E u \in PCO_update_population(opt.population, opt.heap, ev.scores, Len(vms)) :
                 IF u.raised THEN opt' = Raised
                 ELSE \E c \in { Collect(u.heap, u.population, <<>>) } :
                      opt' = [opt EXCEPT !.heap = c.heap, !.population = c.population,
                                         !.best_solution_idx = idx,
                                         !.best_fitness = Append(@, ev.scores[idx]),
                                         !.iteration = @ + 1]
    /\ UNCHANGED <<now, task_counter, last, pms, pmlast, upd, work_load, tqlast, lb, rr>>

\* one pass of the loop of GrayWolfOptimization.optimize
GWOIterate ==
    /\ Running("GWO")
    /\ \E old \in { Values(opt.heap, opt.population) } :
       \E ev \in { evaluate_fitness(old, opt.tasks, vms, now, <<>>) } :
          /\ vms' = ev.vms
          /\ IF Len(old) < 3 THEN opt' = Raised
             ELSE \E idx \in { ArgMax(ev.scores) } :
                  \E new \in GWO_update_population(old, ev.scores, opt.iteration,
                                                   opt.iterations, Len(vms)) :
                      opt' = [opt EXCEPT !.heap = new,
                                         !.best_solution_idx = idx,
                                         !.best_fitness = Append(@, ev.scores[idx]),
                                         !.iteration = @ + 1]
    /\ UNCHANGED <<now, task_counter, last, pms, pmlast, upd, work_load, tqlast, lb, rr>>

\* one pass of the loop of ParticleSwarmOptimization.optimize
PSOIterate ==
    /\ Running("PSO")
    /\ \E ev \in { evaluate_fitness(Values(opt.heap, opt.population), opt.tasks, vms, now, <<>>) } :
       \E idx \in { ArgMax(ev.scores) } :
       \E u \in PSO_update_population(opt.heap, opt.population, opt.velocities, ev.scores,
                                      opt.best_positions, opt.tasks, ev.vms, now) :
          /\ vms' = u.vms
          /\ \E c \in { Collect(u.heap, u.population, u.best_positions) } :
             opt' = IF u.raised
                    THEN [opt EXCEPT !.phase = "raised",
                                     !.heap = c.heap, !.population = c.population,
                                     !.best_positions = c.best_positions,
                                     !.velocities = u.velocities]
                    ELSE [opt EXCEPT !.heap = c.heap, !.population = c.population,
                                     !.best_positions = c.best_positions,
                                     !.velocities = u.velocities,
                                     !.best_solution_idx = idx,
                                     !.best_fitness = Append(@, ev.scores[idx]),
                                     !.iteration = @ + 1]
    /\ UNCHANGED <<now, task_counter, last, pms, pmlast, upd, work_load, tqlast, lb, rr>>

\* population[np.argmax(fitness_scores)] after the loop; without a pass of
\* the loop fitness_scores is unbound
Return ==
    /\ opt.phase = "running"
    /\ opt.iteration = opt.iterations
    /\ opt' = IF opt.best_solution_idx = 0
              THEN Raised
              ELSE [opt EXCEPT !.phase = "returned",
                               !.result = opt.heap[opt.population[opt.best_solution_idx]]]
    /\ UNCHANGED <<now, task_counter, vms, last, pms, pmlast, upd, work_load, tqlast, lb, rr>>

NextOpt ==
    \/ \E algorithm \in Algorithms, tasks \in Batches(Len(vms)), iterations \in 1..MaxIterations :
           \E allocations \in [1..PopulationSize(algorithm) -> Allocations(Len(vms), Len(tasks))] :
               Optimize(algorithm, tasks, iterations, allocations)
    \/ PCOIterate
    \/ GWOIterate
    \/ PSOIterate
    \/ Return

SpecOpt == InitOpt /\ [][NextOpt]_vars

\* ================================================ one update_population step
InitUpd == InitOpt

\* one pass of the loop of PCO.optimize on a population just drawn:
\* evaluate_fitness, then update_population, with the population before and
\* after kept by value
PCOStep(tasks, allocations) ==
    /\ upd.algorithm = "none"
    /\ \E ev \in { evaluate_fitness(allocations, tasks, vms, now, <<>>) } :
          /\ vms' = ev.vms
          /\ \E u \in PCO_update_population([i \in 1..Len(allocations) |-> i], allocations,
                                            ev.scores, Len(vms)) :
                 upd' = [ algorithm      |-> "PCO",
                          population     |-> allocations,
                          fitness_scores |-> ev.scores,
                          updated        |-> Values(u.heap, u.population),
                          raised         |-> u.raised ]
    /\ UNCHANGED <<now, task_counter, last, pms, pmlast, opt, work_load, tqlast, lb, rr>>

NextUpd ==
    \E tasks \in Batches(Len(vms)) :
        \E allocations \in [1..num_plants -> Allocations(Len(vms), Len(tasks))] :
            PCOStep(tasks, allocations)

SpecUpd == InitUpd /\ [][NextUpd]_vars

\* =========================================================== the task source
\* a line of an asset file, as float(line.strip()) sees it: not a number
\* (ValueError), or the number it denotes, a percentage
NotANumber == [ numeric |-> FALSE, value |-> 0 ]
Number(x) == [ numeric |-> TRUE, value |-> x ]

\* the loop of read_file; cpu_utilization / 100, kept in hundredths, is the
\* percentage itself
RECURSIVE TaskQueue_file_tasks(_, _)
TaskQueue_file_tasks(lines, file_tasks) ==
    IF lines = <<>> THEN file_tasks
    ELSE TaskQueue_file_tasks(Tail(lines),
            IF Head(lines).numeric /\ Head(lines).value > 0
            THEN Append(file_tasks, Head(lines).value)
            ELSE file_tasks)

\* self.work_load[file_name] = file_tasks on an insertion-ordered dict
DictSet(d, file_name, rows) ==
    IF \E i \in 1..Len(d) : d[i].file_name = file_name
    THEN [ i \in 1..Len(d) |-> IF d[i].file_name = file_name
                               THEN [ file_name |-> file_name, rows |-> rows ]
                               ELSE d[i] ]
    ELSE Append(d, [ file_name |-> file_name, rows |-> rows ])

TaskQueue_read_file(wl, file_name, lines) ==
    LET file_tasks == TaskQueue_file_tasks(lines, <<>>) IN
    IF file_tasks # <<>> THEN DictSet(wl, file_name, file_tasks) ELSE wl

\* a slicing that yields full batches only and drops the shorter tail
RECURSIVE TaskQueue_slices_full_only(_, _, _, _)
TaskQueue_slices_full_only(file_name, rows, i, batch_size) ==
    IF i + batch_size - 1 > Len(rows) THEN <<>>
    ELSE << [ file_name |-> file_name,
              tasks |-> SubSeq(rows, i, i + batch_size - 1) ] >>
         \o TaskQueue_slices_full_only(file_name, rows, i + batch_size, batch_size)

\* for i in range(0, len(rows), batch_size): yield file_name, rows[i:i + batch_size]
RECURSIVE TaskQueue_slices(_, _, _, _)
TaskQueue_slices(file_name, rows, i, batch_size) ==
    IF i > Len(rows) THEN <<>>
    ELSE << [ file_name |-> file_name,
              tasks |-> SubSeq(rows, i, Min2(i + batch_size - 1, Len(rows))) ] >>
         \o TaskQueue_slices(file_name, rows, i + batch_size, batch_size)

\* everything the generator yields, in order; batch_size 0 stands for None
RECURSIVE TaskQueue_stream_work_load(_, _)
TaskQueue_stream_work_load(wl, batch_size) ==
    IF wl = <<>> THEN <<>>
    ELSE (IF batch_size = 0
          THEN << [ file_name |-> Head(wl).file_name, tasks |-> Head(wl).rows ] >>
          ELSE TaskQueue_slices(Head(wl).file_name, Head(wl).rows, 1, batch_size))
         \o TaskQueue_stream_work_load(Tail(wl), batch_size)

FileNames == {"a", "b"}
LineInputs == { NotANumber, Number(0), Number(-5), Number(50), Number(100), Number(150) }
BatchSizes == 0..(MaxLines + 1)

InitTQ ==
    /\ now = 1
    /\ task_counter = 0
    /\ vms = <<>>
    /\ last = NoCall
    /\ pms = <<>>
    /\ pmlast = NoPMCall
    /\ opt = NoOpt
    /\ upd = NoUpd
    /\ work_load = <<>>
    /\ tqlast = NoTQCall
    /\ lb = NoLB
    /\ rr = NoRR

\* load_tasks calls read_file once for every file of the directory
ReadFile(file_name, lines) ==
    /\ \A i \in 1..Len(work_load) : work_load[i].file_name # file_name
    /\ tqlast.op # "read_file" \/ tqlast.file_name # file_name
    /\ work_load' = TaskQueue_read_file(work_load, file_name, lines)
    /\ tqlast' = [ op |-> "read_file", file_name |-> file_name, lines |-> lines,
                   batch_size |-> 0, value |-> <<>> ]
    /\ UNCHANGED <<now, task_counter, vms, last, pms, pmlast, opt, upd, lb, rr>>

StreamWorkLoad(batch_size) ==
    /\ tqlast' = [ op |-> "stream_work_load", file_name |-> "none", lines |-> <<>>,
                   batch_size |-> batch_size,
                   value |-> TaskQueue_stream_work_load(work_load, batch_size) ]
    /\ UNCHANGED <<now, task_counter, vms, last, pms, pmlast, opt, upd, work_load, lb, rr>>

NextTQ ==
    \/ \E file_name \in FileNames, lines \in SeqsUpTo(LineInputs, MaxLines) :
           ReadFile(file_name, lines)
    \/ \E batch_size \in BatchSizes : StreamWorkLoad(batch_size)

SpecTQ == InitTQ /\ [][NextTQ]_vars

\* ======================================================= the load balancer
\* LoadBalancer.__init__: self.vms.extend(pm.vms) for every PM
RECURSIVE LB_vms(_)
LB_vms(pm_list) == IF pm_list = <<>> THEN <<>> ELSE Head(pm_list).vms \o LB_vms(Tail(pm_list))

\* self.algorithms, and a name that is not configured
AlgorithmNames == Algorithms \cup {"RR"}

\* the unchecked entry of balance_load: the call pulls and commits before
\* it looks at the name
LB_balance_load_unchecked(l, algorithm_name, wl, vmseq, counter, t) ==
    LET pre == [ vms |-> vmseq, metrics |-> l.metrics, task_counter |-> counter,
                 results |-> l.results ]
    IN IF algorithm_name \notin Algorithms
       THEN [l EXCEPT !.phase = "raised", !.error = "ValueError",
                      !.algorithm_name = algorithm_name, !.pre = pre,
                      !.results = Append(@, FALSE)]
       ELSE [l EXCEPT !.phase = "running", !.error = "none",
                      !.algorithm_name = algorithm_name, !.pre = pre, !.start_time = t,
                      !.queue = TaskQueue_stream_work_load(wl, l.batch_size),
                      !.all_tasks = <<>>, !.sla_failed_count = 0, !.loop_count = 0,
                      !.results = <<>>, !.chosen = <<>>]

\* balance_load up to its loop: the name is looked up first; the batches
\* the generator will yield are listed at once, work_load being fixed
LB_balance_load(l, algorithm_name, wl, vmseq, counter, t) ==
    LET pre == [ vms |-> vmseq, metrics |-> l.metrics, task_counter |-> counter,
                 results |-> l.results ]
    IN IF algorithm_name \notin Algorithms
       THEN [l EXCEPT !.phase = "raised", !.error = "ValueError",
                      !.algorithm_name = algorithm_name, !.pre = pre]
       ELSE [l EXCEPT !.phase = "running", !.error = "none",
                      !.algorithm_name = algorithm_name, !.pre = pre, !.start_time = t,
                      !.queue = TaskQueue_stream_work_load(wl, l.batch_size),
                      !.all_tasks = <<>>, !.sla_failed_count = 0, !.loop_count = 0,
                      !.results = <<>>, !.chosen = <<>>]

\* the commit loop cut short at the first rejected task
RECURSIVE LB_commit_until_failure(_, _, _, _, _, _, _, _)
LB_commit_until_failure(tasks, best_allocation, k, vmseq, t, counter, sla_failed_count, results) ==
    IF k > Min2(Len(tasks), Len(best_allocation))
    THEN [ vms |-> vmseq, task_counter |-> counter,
           sla_failed_count |-> sla_failed_count, results |-> results ]
    ELSE LET v    == best_allocation[k] + 1
             task == Task_init(counter + 1, tasks[k], 0, 1, t)
             r    == VM_allocate_task(vmseq[v], task, t)
         IN IF r.allocated
            THEN LB_commit_until_failure(tasks, best_allocation, k + 1,
                                         [vmseq EXCEPT ![v] = r.vm], t, counter + 1,
                                         sla_failed_count, Append(results, TRUE))
            ELSE [ vms |-> [vmseq EXCEPT ![v] = r.vm], task_counter |-> counter + 1,
                   sla_failed_count |-> sla_failed_count + 1,
                   results |-> Append(results, FALSE) ]

\* for task_cpu, vm_idx in zip(tasks, best_allocation): a Task of one
\* period is made and offered to the chosen VM; results keeps what
\* allocate_task returned, call after call
RECURSIVE LB_commit(_, _, _, _, _, _, _, _)
LB_commit(tasks, best_allocation, k, vmseq, t, counter, sla_failed_count, results) ==
    IF k > Min2(Len(tasks), Len(best_allocation))
    THEN [ vms |-> vmseq, task_counter |-> counter,
           sla_failed_count |-> sla_failed_count, results |-> results ]
    ELSE LET v    == best_allocation[k] + 1
             task == Task_init(counter + 1, tasks[k], 0, 1, t)
             r    == VM_allocate_task(vmseq[v], task, t)
         IN LB_commit(tasks, best_allocation, k + 1,
                      [vmseq EXCEPT ![v] = r.vm], t, counter + 1,
                      IF r.allocated THEN sla_failed_count ELSE sla_failed_count + 1,
                      Append(results, r.allocated))

\* max(vm.calculate_makespan() for vm in vm_list)
RECURSIVE LB_makespan(_)
LB_makespan(vm_list) ==
    IF vm_list = <<>> THEN 0
    ELSE Max2(VM_calculate_makespan(Head(vm_list)), LB_makespan(Tail(vm_list)))

\* sum(vm.cpu_usage_percent() for vm in vm_list): every read purges its VM
RECURSIVE LB_cpu_usage(_, _, _, _)
LB_cpu_usage(vm_list, j, t, total) ==
    IF j > Len(vm_list) THEN [ value |-> total, vms |-> vm_list ]
    ELSE LET r == VM_cpu_usage_percent(vm_list[j], t) IN
         LB_cpu_usage([vm_list EXCEPT ![j] = r.vm], j + 1, t, total + r.value)

\* the metrics record with the tasks that were seated as its total
LB_calculate_metrics_seated_only(tasks, vm_list, start_time, end_time, sla_failed_count) ==
    LET total_tasks == Len(tasks) - sla_failed_count
        usage == LB_cpu_usage(vm_list, 1, end_time, 0)
    IN [ vms |-> usage.vms,
         metrics |->
           [ makespan              |-> LB_makespan(vm_list),
             sla_violation         |-> sla_failed_count,
             sla_violation_percent |-> [ num |-> sla_failed_count * 100, den |-> total_tasks ],
             cpu_utilization       |-> [ num |-> usage.value, den |-> Len(vm_list) ],
             execution_time        |-> end_time - start_time,
             tasks_executed        |-> total_tasks,
             energy_consumption    |-> [ num |-> usage.value * 12, den |-> Len(vm_list) * 10 ] ] ]

\* calculate_metrics; quotients are kept as numerator and denominator, and
\* ENERGY_COEFFICIENT 1.2 as 12/10.  The two averaged times are left out.
LB_calculate_metrics(tasks, vm_list, start_time, end_time, sla_failed_count) ==
    LET total_tasks == Len(tasks)
        usage == LB_cpu_usage(vm_list, 1, end_time, 0)
    IN [ vms |-> usage.vms,
         metrics |->
           [ makespan              |-> LB_makespan(vm_list),
             sla_violation         |-> sla_failed_count,
             sla_violation_percent |-> [ num |-> sla_failed_count * 100, den |-> total_tasks ],
             cpu_utilization       |-> [ num |-> usage.value, den |-> Len(vm_list) ],
             execution_time        |-> end_time - start_time,
             tasks_executed        |-> total_tasks,
             energy_consumption    |-> [ num |-> usage.value * 12, den |-> Len(vm_list) * 10 ] ] ]

\* the runs: a datacenter of one PM, the work_load the task source has
\* read, and the batch_size and iterations of the configuration
VMConfig(cpu_core, memory) == [ cpu_core |-> cpu_core, memory |-> memory ]
RoomyPM == [ cpu_core |-> 4, memory |-> 16, vms |-> << VMConfig(2, 8), VMConfig(2, 8) >> ]
TightPM == [ cpu_core |-> 2, memory |-> 16, vms |-> << VMConfig(1, 8), VMConfig(1, 8) >> ]
WidePM ==
    [ cpu_core |-> 5, memory |-> 32,
      vms |-> << VMConfig(2, 8), VMConfig(1, 8), VMConfig(1, 8), VMConfig(1, 8) >> ]
RoomyWorkLoad == << [ file_name |-> "a", rows |-> <<30, 30, 30>> ] >>
TightWorkLoad == << [ file_name |-> "a", rows |-> <<80, 80, 30>> ] >>
WideWorkLoad == << [ file_name |-> "a", rows |-> <<80>> ] >>
HeavyWorkLoad == << [ file_name |-> "a", rows |-> <<80, 80>> ] >>
Runs ==
    { [ pm |-> RoomyPM, work_load |-> RoomyWorkLoad, batch_size |-> 3,
        iterations |-> MaxIterations ],
      [ pm |-> TightPM, work_load |-> TightWorkLoad, batch_size |-> 3,
        iterations |-> MaxIterations ],
      [ pm |-> TightPM, work_load |-> <<>>, batch_size |-> 2, iterations |-> MaxIterations ],
      [ pm |-> WidePM, work_load |-> WideWorkLoad, batch_size |-> 0, iterations |-> 1 ],
      [ pm |-> RoomyPM, work_load |-> HeavyWorkLoad, batch_size |-> 0, iterations |-> 1 ] }

InitLB ==
    \E run \in Runs :
        /\ now = 1
        /\ task_counter = 0
        /\ pms = Datacenter_generate_pms(<<>>, << run.pm >>)
        /\ vms = LB_vms(pms)
        /\ last = NoCall
        /\ pmlast = NoPMCall
        /\ opt = NoOpt
        /\ upd = NoUpd
        /\ work_load = run.work_load
        /\ tqlast = NoTQCall
        /\ lb = [NoLB EXCEPT !.batch_size = run.batch_size, !.iterations = run.iterations]
        /\ rr = NoRR

\* balance_load(algorithm_name) up to its loop.  manager.start() makes one
\* run; a call with a name that is not configured may come at any time
\* no run is under way.
BalanceLoad(algorithm_name) ==
    /\ \/ lb.phase = "idle"
       \/ lb.phase = "drained" /\ algorithm_name \notin Algorithms
    /\ lb' = LB_balance_load(lb, algorithm_name, work_load, vms, task_counter, now)
    /\ UNCHANGED <<now, task_counter, vms, last, pms, pmlast, opt, upd, work_load, tqlast, rr>>

\* the loop pulls a batch and enters algorithm.optimize(tasks, self.vms)
PullBatch ==
    /\ lb.phase = "running"
    /\ opt.phase = "idle"
    /\ lb.queue # <<>>
    /\ lb' = [lb EXCEPT !.queue = Tail(@), !.all_tasks = @ \o Head(lb.queue).tasks]
    /\ \E allocations \in [1..PopulationSize(lb.algorithm_name) ->
                              Allocations(Len(vms), Len(Head(lb.queue).tasks))] :
           opt' = initialize_population(lb.algorithm_name, Head(lb.queue).tasks,
                                        lb.iterations, allocations)
    /\ UNCHANGED <<now, task_counter, vms, last, pms, pmlast, upd, work_load, tqlast, rr>>

\* optimize has returned: the mapping is committed task by task, then
\* time.sleep(task_batch_delay)
CommitBatch(delay) ==
    /\ lb.phase = "running"
    /\ opt.phase = "returned"
    /\ now + delay <= MaxTime
    /\ \E c \in { LB_commit(opt.tasks, opt.result, 1, vms, now, task_counter,
                            lb.sla_failed_count, lb.results) } :
          /\ vms' = c.vms
          /\ task_counter' = c.task_counter
          /\ lb' = [lb EXCEPT !.sla_failed_count = c.sla_failed_count,
                              !.results = c.results,
                              !.chosen = @ \o opt.result,
                              !.loop_count = @ + 1]
    /\ opt' = NoOpt
    /\ now' = now + delay
    /\ UNCHANGED <<last, pms, pmlast, upd, work_load, tqlast, rr>>

\* an exception raised by optimize leaves balance_load
OptimizeRaised ==
    /\ lb.phase = "running"
    /\ opt.phase = "raised"
    /\ lb' = [lb EXCEPT !.phase = "raised", !.error = "optimize"]
    /\ opt' = NoOpt
    /\ UNCHANGED <<now, task_counter, vms, last, pms, pmlast, upd, work_load, tqlast, rr>>

\* the generator is exhausted: the averages over loop_count, then
\* calculate_metrics, collect_metrics and save_metrics
Drain ==
    /\ lb.phase = "running"
    /\ opt.phase = "idle"
    /\ lb.queue = <<>>
    /\ IF lb.loop_count = 0
       THEN /\ lb' = [lb EXCEPT !.phase = "raised", !.error = "ZeroDivisionError"]
            /\ vms' = vms
       ELSE \E m \in { LB_calculate_metrics(lb.all_tasks, vms, lb.start_time, now,
                                            lb.sla_failed_count) } :
                /\ vms' = m.vms
                /\ lb' = [lb EXCEPT !.phase = "drained",
                                    !.metrics = Append(@, m.metrics),
                                    !.saved = m.metrics]
    /\ UNCHANGED <<now, task_counter, last, pms, pmlast, opt, upd, work_load, tqlast, rr>>

NextLB ==
    \/ \E algorithm_name \in AlgorithmNames : BalanceLoad(algorithm_name)
    \/ PullBatch
    \/ PCOIterate
    \/ GWOIterate
    \/ PSOIterate
    \/ Return
    \/ \E delay \in {0, 1} : CommitBatch(delay)
    \/ OptimizeRaised
    \/ Drain

SpecLB == InitLB /\ [][NextLB]_vars

\* ------------------------------------------------- the monitoring thread
\* run_task_monitor, the target of the daemon thread LoadBalancer.__init__
\* starts: TaskMonitor.__init__ has no parameter named vms, so the call
\* TaskMonitor(vms=self.vms, update_interval=25) raises TypeError before a
\* statement of the constructor runs, and the thread ends there
LB_run_task_monitor(vmseq) == [ vms |-> vmseq, error |-> "TypeError" ]

\* a LoadBalancer constructed over the VMs: the thread is started
InitMon ==
    /\ now = 1
    /\ task_counter = 0
    /\ vms = InitVMs
    /\ last = NoCall
    /\ pms = <<>>
    /\ pmlast = NoPMCall
    /\ opt = NoOpt
    /\ upd = NoUpd
    /\ work_load = <<>>
    /\ tqlast = NoTQCall
    /\ lb = [NoLB EXCEPT !.task_monitor_thread = "started"]
    /\ rr = NoRR

RunTaskMonitor ==
    /\ lb.task_monitor_thread = "started"
    /\ \E r \in { LB_run_task_monitor(vms) } :
          /\ vms' = r.vms
          /\ lb' = [lb EXCEPT !.task_monitor_thread = r.error]
    /\ UNCHANGED <<now, task_counter, last, pms, pmlast, opt, upd, work_load, tqlast, rr>>

\* the simulation thread allocates and reads while the monitoring thread
\* and monitor_resources run in any interleaving
NextMon ==
    \/ \E v \in 1..NumVMs, i \in TaskInputs : AllocateTask(v, i[1], i[2], i[3])
    \/ \E v \in 1..NumVMs : FreeCpuPercent(v)
    \/ \E v \in 1..NumVMs : MonitorResources(v)
    \/ RunTaskMonitor
    \/ Tick

SpecMon == InitMon /\ [][NextMon]_vars

\* ============================================================== the claims
LiveTasks(tasks, t) == SelectSeq(tasks, LAMBDA x : ~Task_is_complete(x, t))
InList(tasks, x) == \E i \in 1..Len(tasks) : tasks[i] = x
LastVM == vms[last.vm]

\* C1: for every VM, at every observation point, the summed cpu_demand of
\* the non-expired tasks in its active list is at most max_cpu_utilization.
C1_AdmissionControl ==
    \A v \in 1..Len(vms) :
        SumCpu(LiveTasks(vms[v].tasks, now)) <= max_cpu_utilization

\* C2: allocate_task succeeds exactly when the free CPU headroom (the
\* maximum minus the demand of the non-expired tasks) covers the task's
\* cpu_demand and the free memory covers its memory_demand; on success
\* memory_usage grows by memory_demand and the task is the last of the list.
C2_AllocateIffHeadroom ==
    last.op = "allocate_task" =>
        LET headroom == max_cpu_utilization - SumCpu(LiveTasks(last.pre.tasks, last.time))
            fits == /\ headroom >= last.task.cpu_demand
                    /\ last.pre.memory - last.pre.memory_usage >= last.task.memory_demand
        IN /\ last.allocated <=> fits
           /\ last.allocated =>
                  /\ LastVM.memory_usage = last.pre.memory_usage + last.task.memory_demand
                  /\ ~Task_is_complete(last.task, last.time) =>
                         /\ LastVM.tasks # <<>>
                         /\ LastVM.tasks[Len(LastVM.tasks)] = last.task

\* C3: a failed allocate_task leaves memory_usage, total_executed_time and
\* the non-expired tasks of the VM as they were, and the rejected task is
\* not in the active list.
C3_FailedAllocateNoSideEffect ==
    (last.op = "allocate_task" /\ ~last.allocated) =>
        /\ LastVM.memory_usage = last.pre.memory_usage
        /\ LastVM.total_executed_time = last.pre.total_executed_time
        /\ LiveTasks(LastVM.tasks, last.time) = LiveTasks(last.pre.tasks, last.time)
        /\ ~InList(LastVM.tasks, last.task)

\* a rejected allocation on a VM that held live tasks and lost an expired one
C3_Witness ==
    /\ last.op = "allocate_task"
    /\ ~last.allocated
    /\ LiveTasks(last.pre.tasks, last.time) # <<>>
    /\ LastVM.tasks # last.pre.tasks

\* C4: free_cpu_percent removes every expired task from the active list and
\* returns the maximum minus the summed cpu_demand of the remaining tasks,
\* whatever the mix and order of expired and non-expired tasks.
C4_FreeCpuPercentPurgesAndReports ==
    last.op = "free_cpu_percent" =>
        /\ LastVM.tasks = LiveTasks(last.pre.tasks, last.time)
        /\ last.value = max_cpu_utilization - SumCpu(LiveTasks(last.pre.tasks, last.time))

\* C5: a task whose end_time has been reached is absent from vm.tasks after
\* the very next call of free_cpu_percent or calculate_makespan on the VM.
C5_LazyExpiry ==
    last.op \in {"free_cpu_percent", "calculate_makespan"} =>
        \A i \in 1..Len(LastVM.tasks) : ~Task_is_complete(LastVM.tasks[i], last.time)

\* C6: memory_usage equals the summed memory_demand of the tasks still in
\* the active list, after any sequence of allocations and purges.
C6_MemoryUsageMatchesActive ==
    \A v \in 1..Len(vms) : vms[v].memory_usage = SumMemory(vms[v].tasks)

LastPM == pms[pmlast.pm]

\* C7: add_vm succeeds exactly when free_cpu_core >= vm.cpu_core and
\* free_memory >= vm.memory; on success the free counters drop by the VM's
\* cores and memory and the VM is appended; on failure the counters and the
\* VM list are unchanged.
C7_AddVmIffFree ==
    pmlast.op = "add_vm" =>
        LET fits == /\ pmlast.pre.free_cpu_core >= pmlast.vm.cpu_core
                    /\ pmlast.pre.free_memory >= pmlast.vm.memory
        IN /\ pmlast.ok <=> fits
           /\ pmlast.ok =>
                  /\ LastPM.free_cpu_core = pmlast.pre.free_cpu_core - pmlast.vm.cpu_core
                  /\ LastPM.free_memory = pmlast.pre.free_memory - pmlast.vm.memory
                  /\ LastPM.vms = Append(pmlast.pre.vms, pmlast.vm)
           /\ ~pmlast.ok => LastPM = pmlast.pre

\* an add_vm refused for memory alone, on a PM that already hosts a VM
C7_Witness ==
    /\ pmlast.op = "add_vm"
    /\ ~pmlast.ok
    /\ pmlast.pre.vms # <<>>
    /\ pmlast.pre.free_cpu_core >= pmlast.vm.cpu_core

\* C8: for every PM the VMs in pm.vms use at most the PM's cores and memory,
\* and the free counters are the capacity minus those sums, never negative.
C8_PMCapacity ==
    \A p \in 1..Len(pms) :
        /\ SumCores(pms[p].vms) <= pms[p].cpu_core
        /\ SumVmMemory(pms[p].vms) <= pms[p].memory
        /\ pms[p].free_cpu_core = pms[p].cpu_core - SumCores(pms[p].vms)
        /\ pms[p].free_memory = pms[p].memory - SumVmMemory(pms[p].vms)
        /\ pms[p].free_cpu_core >= 0
        /\ pms[p].free_memory >= 0

\* a PM filled to its last core by generate_vms or generate_pms, then
\* offered one more VM
C8_Witness ==
    /\ pmlast.op = "add_vm"
    /\ ~pmlast.ok
    /\ Len(pmlast.pre.vms) >= 2
    /\ pmlast.pre.free_cpu_core = 0

\* C9: for each of PCO, PSO and GWO, with a non-empty batch, at least one
\* VM and at least one iteration, optimize(tasks, vms) returns a mapping of
\* exactly len(tasks) entries, each a VM index in 0..len(vms)-1.
C9_OptimizeReturnsValidMapping ==
    (opt.phase \in {"returned", "raised"} /\ opt.tasks # <<>> /\ opt.iterations >= 1) =>
        /\ opt.phase = "returned"
        /\ Len(opt.result) = Len(opt.tasks)
        /\ \A d \in 1..Len(opt.result) : opt.result[d] \in 0..(Len(vms) - 1)

\* C10: the candidate returned by optimize() has a fitness no worse than
\* the best of the scores computed in the last iteration.
C10_Elitism ==
    opt.phase = "returned" =>
        evaluate_fitness(<<opt.result>>, opt.tasks, vms, now, <<>>).scores[1]
            >= opt.best_fitness[Len(opt.best_fitness)]

\* C19: read_file skips every malformed line (not a number, or not
\* positive), keeps the valid values of the file in their order, and every
\* fraction it stores lies in (0, 1], that is in 1..100 hundredths.
C19_ReadFileKeepsValidFractions ==
    tqlast.op = "read_file" =>
        LET valid == SelectSeq(tqlast.lines, LAMBDA l : l.numeric /\ l.value > 0)
            stored == SelectSeq(work_load, LAMBDA f : f.file_name = tqlast.file_name)
            rows == IF stored = <<>> THEN <<>> ELSE stored[1].rows
        IN /\ rows = [ i \in 1..Len(valid) |-> valid[i].value ]
           /\ \A i \in 1..Len(rows) : rows[i] > 0 /\ rows[i] <= 100

\* C20: calculate_makespan returns the greatest end_time among the tasks
\* of the VM that have not expired, and 0 when there is none.
C20_MakespanOverActiveTasks ==
    last.op = "calculate_makespan" =>
        last.value = MaxEnd(LiveTasks(last.pre.tasks, last.time))

\* C11: the candidate returned by optimize() is at least as good as the
\* best candidate evaluated in any iteration before the last one.
C11_BestEverRetained ==
    opt.phase = "returned" =>
        \A k \in 1..(Len(opt.best_fitness) - 1) :
            evaluate_fitness(<<opt.result>>, opt.tasks, vms, now, <<>>).scores[1]
                >= opt.best_fitness[k]

\* C12: optimize() called with an empty batch returns an empty mapping and
\* does not raise, for PCO, PSO and GWO.
C12_EmptyBatchReturnsEmptyMapping ==
    (opt.phase \in {"returned", "raised"} /\ opt.tasks = <<>>) =>
        /\ opt.phase = "returned"
        /\ opt.result = <<>>

\* C17: one PCO update_population step leaves the retained elites as they
\* were: the first num_plants/2 plants of the new population are, in
\* content, the best num_plants/2 plants of the population before the step.
C17_ElitesUnchanged ==
    (upd.algorithm = "PCO" /\ ~upd.raised) =>
        LET half == Len(upd.population) \div 2
            elites == SubSeq(PCO_sorted(upd.fitness_scores, upd.population, <<>>), 1, half)
        IN SubSeq(upd.updated, 1, half) = elites

CountOf(results, b) == Len(SelectSeq(results, LAMBDA x : x = b))
TotalRows(wl) == SumSeq([ i \in 1..Len(wl) |-> Len(wl[i].rows) ])

\* C13: in balance_load the SLA-violation count equals the number of
\* allocate_task calls that returned failure, and a failed allocation does
\* not stop the batch or the run: once a batch is committed every task
\* pulled so far has been offered to a VM.
C13_SlaCountsFailedAllocations ==
    (lb.phase \in {"running", "drained"} /\ opt.phase = "idle") =>
        /\ lb.sla_failed_count = CountOf(lb.results, FALSE)
        /\ Len(lb.results) = Len(lb.all_tasks)
        /\ lb.phase = "drained" => Len(lb.results) = TotalRows(work_load)

\* a finished run in which a task was rejected and a later one seated
C13_Witness ==
    /\ lb.phase = "drained"
    /\ \E i, j \in 1..Len(lb.results) : i < j /\ ~lb.results[i] /\ lb.results[j]

\* C14: balance_load with a name that is not configured fails with
\* ValueError, and only then, before any batch is pulled, any optimize
\* call and any allocation: the VMs, the task counter and the collected
\* metrics are as they were.
C14_UnknownAlgorithmFailsFirst ==
    /\ lb.phase # "idle" => (lb.error = "ValueError" <=> lb.algorithm_name \notin Algorithms)
    /\ lb.error = "ValueError" =>
          /\ lb.phase = "raised"
          /\ vms = lb.pre.vms
          /\ task_counter = lb.pre.task_counter
          /\ lb.metrics = lb.pre.metrics
          /\ lb.results = lb.pre.results
          /\ opt = NoOpt

\* an unknown name asked for after a run has allocated tasks and collected
\* its metrics
C14_Witness ==
    /\ lb.error = "ValueError"
    /\ lb.metrics # <<>>
    /\ task_counter > 0

\* C15: an unknown algorithm name is the only fatal condition of
\* balance_load: with a configured name the call never raises, whatever the
\* task source holds.
C15_OnlyUnknownNameIsFatal ==
    lb.phase = "raised" => lb.error = "ValueError"

\* C16: one PM of 4 cores and 16 memory units hosting two VMs of 2 cores and
\* 8 memory units, all empty, and a batch of three tasks of demand 0.3: the
\* mapping any of the three optimizers returns commits with no SLA
\* violation, and the run ends without raising.
C16_RoomyBatchCommitsCleanly ==
    (work_load = RoomyWorkLoad /\ pms = Datacenter_generate_pms(<<>>, << RoomyPM >>)) =>
        /\ lb.phase = "raised" => lb.error = "ValueError"
        /\ lb.sla_failed_count = 0
        /\ \A i \in 1..Len(lb.results) : lb.results[i]
        /\ lb.phase = "drained" => lb.saved.sla_violation = 0 /\ Len(lb.results) = 3

\* the three tasks committed, all of them on one VM
C16_Witness ==
    /\ work_load = RoomyWorkLoad
    /\ lb.phase = "drained"
    /\ Len(lb.results) = 3
    /\ \E v \in 1..Len(vms) : Len(vms[v].tasks) = 3

\* C18: the final metrics record reports tasks_executed as the number of
\* demands pulled over all batches, sla_violation as the number of rejected
\* ones and sla_violation_percent as 100 * violations / total, so
\* tasks_executed - sla_violation is the number of successful allocations.
C18_MetricsCountTasks ==
    lb.phase = "drained" =>
        /\ lb.saved.tasks_executed = TotalRows(work_load)
        /\ lb.saved.sla_violation = CountOf(lb.results, FALSE)
        /\ lb.saved.sla_violation_percent.den > 0
        /\ lb.saved.sla_violation_percent.num * TotalRows(work_load)
               = 100 * CountOf(lb.results, FALSE) * lb.saved.sla_violation_percent.den
        /\ lb.saved.tasks_executed - lb.saved.sla_violation = CountOf(lb.results, TRUE)

\* a finished run with both seated and rejected tasks
C18_Witness ==
    /\ lb.phase = "drained"
    /\ lb.saved.sla_violation > 0
    /\ lb.saved.sla_violation < lb.saved.tasks_executed

\* C21: stream_work_load(batch_size) partitions each file's task list: the
\* batches of a file are non-empty and contiguous in the stream, files come
\* in the order of the work_load, every batch but the last of its file has
\* exactly batch_size entries and the last at most batch_size, and the
\* batches of a file concatenated in yield order are the file's list; with
\* batch_size None each file is one batch.
RECURSIVE Concat(_)
Concat(batches) ==
    IF batches = <<>> THEN <<>> ELSE Head(batches).tasks \o Concat(Tail(batches))

BatchesOf(stream, file_name) == SelectSeq(stream, LAMBDA b : b.file_name = file_name)

C21_StreamPartitionsFiles ==
    tqlast.op = "stream_work_load" =>
        LET stream == tqlast.value IN
        /\ \A k \in 1..Len(stream) : stream[k].tasks # <<>>
        /\ \A k \in 1..Len(stream) :
              \E f \in 1..Len(work_load) : work_load[f].file_name = stream[k].file_name
        /\ \A j, k \in 1..Len(stream) : \A f, g \in 1..Len(work_load) :
              (j < k /\ work_load[f].file_name = stream[j].file_name
                     /\ work_load[g].file_name = stream[k].file_name) => f <= g
        /\ \A f \in 1..Len(work_load) :
              LET mine == BatchesOf(stream, work_load[f].file_name) IN
              /\ Concat(mine) = work_load[f].rows
              /\ tqlast.batch_size = 0 => Len(mine) = 1
              /\ tqlast.batch_size > 0 =>
                    /\ \A k \in 1..Len(mine) : Len(mine[k].tasks) <= tqlast.batch_size
                    /\ \A k \in 1..(Len(mine) - 1) : Len(mine[k].tasks) = tqlast.batch_size

\* a file of three values streamed in batches of two: a full batch, then a
\* shorter one, then the next file
C21_Witness ==
    /\ tqlast.op = "stream_work_load"
    /\ tqlast.batch_size = 2
    /\ Len(work_load) = 2
    /\ Len(work_load[1].rows) = 3
    /\ Len(tqlast.value) >= 3
    /\ Len(tqlast.value[1].tasks) = 2
    /\ Len(tqlast.value[2].tasks) = 1

\* C22: in balance_load every task demand of every batch is offered to
\* allocate_task exactly once, on the VM the optimizer chose for it, after
\* the batch's optimize call has returned and before the next one starts; a
\* rejected task is never retried.  While optimize works on a batch the
\* earlier batches are fully offered and the current one not at all; when
\* no optimize call is under way every pulled demand has been offered; a
\* task of the run sits on a VM only if its one offer was accepted, on the
\* chosen VM, once.
C22_EveryTaskOfferedOnce ==
    (lb.phase # "idle" /\ lb.algorithm_name \in Algorithms) =>
        /\ opt.phase # "idle" => Len(lb.results) + Len(opt.tasks) = Len(lb.all_tasks)
        /\ opt.phase = "idle" => Len(lb.results) = Len(lb.all_tasks)
        /\ Len(lb.chosen) = Len(lb.results)
        /\ task_counter = lb.pre.task_counter + Len(lb.results)
        /\ \A v \in 1..Len(vms) : \A i \in 1..Len(vms[v].tasks) :
              LET n == vms[v].tasks[i].task_id - lb.pre.task_counter IN
              n >= 1 =>
                 /\ n <= Len(lb.results)
                 /\ lb.results[n]
                 /\ lb.chosen[n] + 1 = v
                 /\ \A j \in 1..Len(vms[v].tasks) :
                       vms[v].tasks[j].task_id = vms[v].tasks[i].task_id => j = i

\* C23: GWO's optimize() stops before its iteration budget is used up as
\* soon as the best fitness of the population crosses the convergence
\* threshold.  Fitness is minus the overload penalty, so a best fitness of 0
\* is the optimum and crosses every threshold a configuration can set: no
\* iteration follows one whose best fitness was 0.
C23_GWOStopsAtConvergence ==
    (opt.algorithm = "GWO" /\ opt.phase = "returned") =>
        \A k \in 1..Len(opt.best_fitness) :
            opt.best_fitness[k] = 0 => k = Len(opt.best_fitness)

\* C24: one PCO update_population step keeps the population size at
\* num_plants; the new population is the top half of the old one by fitness
\* followed by regenerated plants, each differing from some surviving plant
\* in at most one task position, every position holding a VM index in
\* [0, len(vms) - 1].
Differing(a, b) == Cardinality({ d \in 1..Len(a) : a[d] # b[d] })

C24_UpdateKeepsTopHalfAndMutatesOnePosition ==
    (upd.algorithm = "PCO" /\ ~upd.raised) =>
        LET half == Len(upd.population) \div 2
            top  == SubSeq(PCO_sorted(upd.fitness_scores, upd.population, <<>>), 1, half)
        IN /\ Len(upd.updated) = num_plants
           /\ SubSeq(upd.updated, 1, half) = top
           /\ \A i \in (half + 1)..Len(upd.updated) :
                 /\ \E j \in 1..half :
                       /\ Len(upd.updated[i]) = Len(top[j])
                       /\ Differing(upd.updated[i], top[j]) <= 1
                 /\ \A d \in 1..Len(upd.updated[i]) :
                       upd.updated[i][d] \in 0..(Len(vms) - 1)

\* C25: in PSO every position vector read as VM selections, the particles'
\* current positions and their personal-best positions alike, has all its
\* indices in [0, len(vms) - 1] after every update step, so the fitness
\* evaluation never indexes a VM outside the pool.
C25_PSOPositionsInRange ==
    opt.algorithm = "PSO" =>
        /\ opt.phase # "raised"
        /\ \A i \in 1..Len(opt.population) :
              \A d \in 1..Len(opt.heap[opt.population[i]]) :
                  opt.heap[opt.population[i]][d] \in 0..(Len(vms) - 1)
        /\ \A i \in 1..Len(opt.best_positions) :
              \A d \in 1..Len(opt.heap[opt.best_positions[i]]) :
                  opt.heap[opt.best_positions[i]][d] \in 0..(Len(vms) - 1)

\* C26: in PSO the tracked bests never get worse: from one iteration to the
\* next the fitness of the global-best position used for the social pull
\* and the fitness of each particle's personal-best position are at least
\* what they were in the previous iteration.
PersonalBest(o, vmseq, i) ==
    evaluate_fitness(<<o.heap[o.best_positions[i]]>>, o.tasks, vmseq, now, <<>>)

C26_PSOBestsNeverWorse ==
    [][ (opt.algorithm = "PSO" /\ opt'.algorithm = "PSO"
            /\ opt'.iteration = opt.iteration + 1) =>
          /\ \A i \in 1..Len(opt.best_positions) :
                /\ ~PersonalBest(opt', vms', i).raised
                /\ PersonalBest(opt', vms', i).scores[1]
                      >= PersonalBest(opt, vms', i).scores[1]
          /\ opt.iteration >= 1 =>
                opt'.best_fitness[opt'.iteration] >= opt.best_fitness[opt.iteration] ]_vars

\* C27: the monitoring thread started by LoadBalancer and
\* VM.monitor_resources only read: in no interleaving with the simulation
\* thread does a step of either add, remove or modify a task of a VM or
\* change memory_usage.
C27_MonitorOnlyReads ==
    [][ (\/ lb'.task_monitor_thread # lb.task_monitor_thread
         \/ (last'.op = "monitor_resources" /\ last' # last)) => vms' = vms ]_vars

\* monitor_resources has read a VM that still lists a finished task, which
\* a purging read would have removed, after the monitoring thread has run
C27_Witness ==
    /\ last.op = "monitor_resources"
    /\ last.time = now
    /\ lb.task_monitor_thread = "TypeError"
    /\ \E i \in 1..Len(vms[last.vm].tasks) : Task_is_complete(vms[last.vm].tasks[i], now)
    /\ vms[last.vm].memory_usage > 0

\* C28: RoundRobinAllocator.allocate(item) tries the resources in cyclic
\* order from the current index, each at most once; it returns True with
\* the item attached to exactly one resource, the first in that order whose
\* add_vm accepts it, and False with the item attached nowhere if none
\* accepts; the index stays in [0, len(resources) - 1] and afterwards
\* points just past the last resource tried; with no resources it raises
\* ValueError.
RROrder(j) == (rr.pre.index + j) % Len(rr.pre.resources)
RRAccepts(j) == PM_add_vm(rr.pre.resources[RROrder(j) + 1], rr.item).ok

C28_RoundRobinAllocate ==
    rr.op = "allocate" =>
        IF rr.pre.resources = <<>>
        THEN rr.error = "ValueError" /\ rr.resources = <<>> /\ rr.index = rr.pre.index
        ELSE LET n == Len(rr.pre.resources)
                 accepting == { j \in 0..(n - 1) : RRAccepts(j) }
             IN /\ rr.error = "none"
                /\ rr.index \in 0..(n - 1)
                /\ rr.ret <=> accepting # {}
                /\ accepting = {} => rr.resources = rr.pre.resources /\ rr.index = rr.pre.index
                /\ accepting # {} =>
                      LET first == CHOOSE j \in accepting : \A l \in accepting : j <= l IN
                      /\ rr.index = (RROrder(first) + 1) % n
                      /\ rr.resources[RROrder(first) + 1].vms
                            = Append(rr.pre.resources[RROrder(first) + 1].vms, rr.item)
                      /\ \A q \in 1..n :
                            q # RROrder(first) + 1 => rr.resources[q] = rr.pre.resources[q]

\* an item refused by the resource at the index and taken by a later one,
\* the index having wrapped round before
C28_Witness ==
    /\ rr.op = "allocate"
    /\ rr.ret
    /\ Len(rr.pre.resources) = 3
    /\ rr.pre.index = 2
    /\ rr.index = 1
    /\ ~RRAccepts(0)
    /\ RRAccepts(1)

\* C29: fitness and admission agree: a mapping with overload penalty zero
\* under evaluate_fitness for the current VM state, committed task by task
\* with allocate_task at the same instant, has no failed allocation,
\* whatever the cpu_core count of the VMs.
C29_ZeroPenaltyCommitsCleanly ==
    [][ (lb.phase = "running" /\ opt.phase = "returned" /\ opt'.phase = "idle"
            /\ evaluate_fitness(<<opt.result>>, opt.tasks, vms, now, <<>>).scores = <<0>>)
          => /\ lb'.sla_failed_count = lb.sla_failed_count
             /\ \A n \in (Len(lb.results) + 1)..Len(lb'.results) : lb'.results[n] ]_vars

\* C30: an optimize() call never commits anything: no step of it adds a
\* task to a VM or creates one, and every VM keeps its memory_usage, its
\* total_executed_time and its tasks that have not expired; all it can do
\* to the pool is purge tasks that have already expired.
C30_OptimizeNeverCommits ==
    [][ (opt.phase = "running" \/ opt'.phase = "running") =>
          /\ task_counter' = task_counter
          /\ Len(vms') = Len(vms)
          /\ \A v \in 1..Len(vms) :
                /\ vms'[v].cpu_core = vms[v].cpu_core
                /\ vms'[v].memory = vms[v].memory
                /\ vms'[v].memory_usage = vms[v].memory_usage
                /\ vms'[v].total_executed_time = vms[v].total_executed_time
                /\ LiveTasks(vms'[v].tasks, now) = LiveTasks(vms[v].tasks, now)
                /\ Len(vms'[v].tasks) <= Len(vms[v].tasks)
                /\ \A i \in 1..Len(vms'[v].tasks) : InList(vms[v].tasks, vms'[v].tasks[i]) ]_vars

\* optimize has returned after its fitness reads purged the finished task
\* of a VM and left the running one
C30_Witness ==
    /\ opt.phase = "returned"
    /\ opt.tasks # <<>>
    /\ now = 4
    /\ \E v \in 1..Len(vms) : vms[v].tasks = << PoolTask(3, 20, 1) >>

====
